---- MODULE Spec2Model ----
(***************************************************************************)
(* Model of rules_exporter (src/rules_exporter.go): the /probe handler,    *)
(* the process-wide ruleMetrics map, the per-request registry, the         *)
(* backend query and the rendering of the response.                        *)
(*                                                                         *)
(* Each HTTP request runs the handler closure in its own goroutine; the    *)
(* goroutines share ruleMetrics and the GaugeVec objects it points to.     *)
(* ruleMetrics is a plain Go map with no lock: an access to it is an       *)
(* interval (begin .. end), and two overlapping accesses of which one is   *)
(* a write are a data race whose outcome is either the runtime's fatal     *)
(* "concurrent map" error or one of the two orders.                        *)
(* GaugeVec.With and Gauge.Set are synchronised inside the metrics         *)
(* library and are atomic steps; gathering a registry reads its series     *)
(* one at a time.  A panic inside the handler is recovered by net/http:    *)
(* the request ends without a response and the process goes on.            *)
(*                                                                         *)
(* The module also models the TTL cache (package cache, Cache.Set, Get,    *)
(* Delete and Cleanup under its RWMutex).  The exporter never constructs   *)
(* a Cache, so the cache has its own variables and specifications: its     *)
(* calls one at a time (CacheSpec) and its calls by several goroutines,    *)
(* step by step under the mutex (CacheConcSpec).  Times are UnixNano       *)
(* values, int64 in the source and TimeBits wide here, wrapping alike.     *)
(***************************************************************************)
EXTENDS Integers, Sequences, FiniteSets, TLC

VARIABLES
    ruleMetrics,  \* the global map: rule name -> GaugeVec (an index of vecs)
    vecs,         \* the GaugeVec objects ever created, in creation order
    req,          \* per handler goroutine: position and locals of its request
    nRequests,    \* number of requests accepted so far
    crashed,      \* the runtime ended the process (fatal concurrent map access)
    items,        \* Cache.items: key -> CacheItem
    now,          \* the clock, time.Now().UnixNano()
    ret,          \* calls one at a time: the last call and what it returned
    sets,         \* per key, the latest Set not followed by a Delete: its
                  \* value, its time and its duration
    unswept,      \* the items of a cache that gets the same calls but no Cleanup
    mu,           \* Cache.mu: the writer holding it (0: none) and its readers
    cp,           \* per calling goroutine: its call and its position in it
    stored        \* per key, the whole CacheItem its latest writer gave it

hvars == <<ruleMetrics, vecs, req, nRequests, crashed>>
cvars == <<items, now, ret, sets, unswept, mu, cp, stored>>
vars == <<ruleMetrics, vecs, req, nRequests, crashed,
          items, now, ret, sets, unswept, mu, cp, stored>>

----------------------------------------------------------------------------
\* Bounds of the model.
NumHandlers == 2      \* goroutines serving requests at the same time
MaxRequests == 2      \* requests accepted in one behaviour, one at a time
MaxConcRequests == 2  \* requests accepted in one behaviour, overlapping
MaxRows == 2          \* rows in one backend result, requests one at a time
MaxConcRows == 1      \* rows in one backend result, requests overlapping
TimeBits == 4         \* width of a time or a duration (int64 in the source)
MaxNow == 4           \* the clock stops here
NumCallers == 2       \* goroutines calling the cache at the same time
MaxConcNow == 2       \* the clock stops here while calls overlap

Handlers == 1..NumHandlers
Callers == 1..NumCallers

\* The keys, values and durations of the cache calls.
Keys == {"k1", "k2"}
Values == {"v1", "v2"}
MaxInt == 2^(TimeBits - 1) - 1
Ttls == {-1, 0, 1, 2, MaxInt}

\* No value (nil), and the record of no call.
Nil == "nil"
NoCall == [op |-> "none", key |-> "", value |-> Nil, found |-> FALSE]
ZeroItem == [Value |-> Nil, Expiration |-> 0]
Fields == {"Value", "Expiration"}
IdleCaller == [pc |-> "idle", op |-> "none", key |-> "", value |-> Nil,
               ttl |-> 0, left |-> {}, item |-> ZeroItem,
               present |-> FALSE, found |-> FALSE]

----------------------------------------------------------------------------
\* Config: the catalog loaded by loadConfig, fixed for the process lifetime.
\* Two targets share the rule name "ruleB".
Config ==
    [Targets |->
        [t \in {"t1", "t2"} |->
            IF t = "t1"
            THEN [Target |-> "t1", Endpoint |-> "e1",
                  Rules |-> << [Record |-> "ruleA", Expr |-> "qa"],
                               [Record |-> "ruleB", Expr |-> "qb"] >>]
            ELSE [Target |-> "t2", Endpoint |-> "e2",
                  Rules |-> << [Record |-> "ruleB", Expr |-> "qb2"] >>]]]

\* The values of the target query parameter a request may carry
\* ("" is what Query().Get returns for a missing or empty parameter).
TargetParams == {"", "ghost", "t1", "t2"}

\* Label maps and value strings the backend may put in a result row.
Rows ==
    { [metric |-> [job |-> "a"], value |-> "1"],
      [metric |-> [job |-> "a"], value |-> "2"],
      [metric |-> [job |-> "b"], value |-> "NaNgarbage"],
      [metric |-> [job |-> "a", inst |-> "x"], value |-> "1"],
      [metric |-> [job |-> "a", value |-> "x"], value |-> "1"] }

RowSeqs(max) == UNION { [1..n -> Rows] : n \in 0..max }

\* What the backend can answer to one GET /api/v1/query.
Responses(max) ==
    { [kind |-> "neterr",   rows |-> <<>>],     \* client.Get fails (or times out)
      [kind |-> "badjson",  rows |-> <<>>],     \* body is not JSON
      [kind |-> "badshape", rows |-> <<>>] }    \* JSON without data/result/metric/value
    \cup { [kind |-> "ok", rows |-> rs] : rs \in RowSeqs(max) }

----------------------------------------------------------------------------
\* strconv.ParseFloat on the value strings of the model: the number and
\* whether an error is returned (a syntax error returns 0 and an error).
ParseFloat(s) ==
    CASE s = "1" -> [val |-> 1, err |-> FALSE]
      [] s = "2" -> [val |-> 2, err |-> FALSE]
      [] OTHER   -> [val |-> 0, err |-> TRUE]

\* queryPrometheus, lines 73-79: one parsed result per row, the metric's
\* label map with the value string stored under the key "value".
ParsedRow(row) ==
    [k \in (DOMAIN row.metric) \cup {"value"} |->
        IF k = "value" THEN row.value ELSE row.metric[k]]

\* queryPrometheus: the parsed results, an error, or a panic of the
\* unchecked type assertions.
queryPrometheus(resp) ==
    CASE resp.kind \in {"neterr", "badjson"} ->
            [results |-> <<>>, err |-> TRUE, panic |-> FALSE]
      [] resp.kind = "badshape" ->
            [results |-> <<>>, err |-> FALSE, panic |-> TRUE]
      [] OTHER ->
            [results |-> [n \in 1..Len(resp.rows) |-> ParsedRow(resp.rows[n])],
             err |-> FALSE, panic |-> FALSE]

\* handler, line 108: the value of a parsed result, the error ignored.
RowValue(result) == ParseFloat(result["value"]).val

\* handler, lines 109-114: the labels of a parsed result.
RowLabels(result) ==
    [k \in (DOMAIN result) \ {"value"} |-> result[k]]

\* getLabelNames: the keys of a label map.
getLabelNames(labels) == DOMAIN labels

----------------------------------------------------------------------------
\* The locals of a handler goroutine between requests.
IdleReq ==
    [pc |-> "idle", target |-> "", i |-> 0, j |-> 0, rows |-> <<>>,
     results |-> <<>>,
     metric |-> 0, registry |-> {}, queried |-> <<>>, logged |-> <<>>,
     pending |-> {}, body |-> {}, status |-> 0]

Init ==
    /\ ruleMetrics = [r \in {} |-> 0]
    /\ vecs = <<>>
    /\ req = [h \in Handlers |-> IdleReq]
    /\ nRequests = 0
    /\ crashed = FALSE
    /\ items = [k \in {} |-> 0]
    /\ now = 1
    /\ ret = NoCall
    /\ sets = [k \in {} |-> 0]
    /\ unswept = [k \in {} |-> 0]
    /\ mu = [w |-> 0, r |-> {}]
    /\ cp = [p \in Callers |-> IdleCaller]
    /\ stored = [k \in {} |-> 0]

----------------------------------------------------------------------------
\* Helpers over the state.

\* A Go map assignment m[k] = v.
MapSet(m, k, v) ==
    [x \in (DOMAIN m) \cup {k} |-> IF x = k THEN v ELSE m[x]]

\* The group of the request handler h is serving, and the rule and the
\* parsed result its loops are at.
GroupOf(h) == Config.Targets[req[h].target]
RuleOf(h) == GroupOf(h).Rules[req[h].i]
ResultOf(h) == req[h].results[req[h].j]

\* RejectStatus without the test for the empty parameter.
RejectStatusNoEmptyCheck(target) ==
    IF target \notin DOMAIN Config.Targets THEN 404 ELSE 0

\* handler, lines 87-96: the status of a rejected request, 0 when the
\* request is accepted.
RejectStatus(target) ==
    IF target = "" THEN 400
    ELSE IF target \notin DOMAIN Config.Targets THEN 404
    ELSE 0

\* The locals after the rule loop moved on from rule i of group g: the
\* next rule's query, or the rendering after the last rule.
AfterRule(r, g) ==
    [r EXCEPT !.i = r.i + 1, !.j = 0, !.metric = 0,
              !.pc = IF r.i + 1 > Len(g.Rules) THEN "render" ELSE "query"]

\* The locals after the row loop moved on from row j.
AfterRow(r, g) ==
    IF r.j + 1 > Len(r.results)
    THEN AfterRule(r, g)
    ELSE [r EXCEPT !.j = r.j + 1, !.metric = 0, !.pc = "lookup"]

\* The locals of a request that ended in a panic: net/http recovers it and
\* closes the connection, nothing has been written.
Panicked(r) ==
    [IdleReq EXCEPT !.pc = "panic", !.target = r.target, !.queried = r.queried]

\* GaugeVec.With on vec v: label names other than the descriptor's are an
\* error (With panics on it).
WithFails(v, labels) == getLabelNames(labels) # v.labelNames

HasSeries(v, labels) == \E s \in v.series : s.labels = labels

\* GaugeVec.With: the series of these label values, created at 0 when new.
WithSeries(v, labels) ==
    IF HasSeries(v, labels) THEN v
    ELSE [v EXCEPT !.series = @ \cup {[labels |-> labels, value |-> 0]}]

\* Gauge.Set on the series of these label values.
SetSeries(v, labels, value) ==
    [v EXCEPT !.series =
        { IF s.labels = labels THEN [s EXCEPT !.value = value] ELSE s : s \in @ }]

\* Registry.MustRegister panics when the registry already holds a
\* collector of that metric name.
RegisterFails(registry, v) == \E w \in registry : vecs[w].name = vecs[v].name

----------------------------------------------------------------------------
\* handler, lines 86-98: a request arrives with target parameter t.
Request(h, t) ==
    /\ ~crashed
    /\ req[h].pc \in {"idle", "done", "panic"}
    /\ nRequests < MaxRequests
    /\ nRequests' = nRequests + 1
    /\ req' = [req EXCEPT ![h] =
                 IF RejectStatus(t) # 0
                 THEN [IdleReq EXCEPT !.pc = "done", !.target = t,
                                      !.status = RejectStatus(t)]
                 ELSE [IdleReq EXCEPT !.pc = "query", !.target = t, !.i = 1]]
    /\ UNCHANGED <<ruleMetrics, vecs, crashed>>
    /\ UNCHANGED cvars

\* handler, lines 100-105: the query of rule i, answered by resp.
Query(h, resp) ==
    /\ ~crashed
    /\ req[h].pc = "query"
    /\ LET r == req[h]
           q == queryPrometheus(resp)
           asked == [r EXCEPT !.queried = Append(@, RuleOf(h).Expr)]
       IN  req' = [req EXCEPT ![h] =
                CASE q.panic -> Panicked(asked)
                  [] q.err ->
                       AfterRule([asked EXCEPT !.logged = Append(@, RuleOf(h).Record),
                                               !.rows = <<>>, !.results = <<>>],
                                 GroupOf(h))
                  [] OTHER ->
                       IF Len(q.results) = 0
                       THEN AfterRule([asked EXCEPT !.rows = <<>>, !.results = <<>>],
                                      GroupOf(h))
                       ELSE [asked EXCEPT !.rows = resp.rows,
                                          !.results = q.results, !.j = 1,
                                          !.pc = "lookup"]]
    /\ UNCHANGED <<ruleMetrics, vecs, nRequests, crashed>>
    /\ UNCHANGED cvars

\* handler, line 116: the read of ruleMetrics begins.
LookupBegin(h) ==
    /\ ~crashed
    /\ req[h].pc = "lookup"
    /\ req' = [req EXCEPT ![h].pc = "reading"]
    /\ UNCHANGED <<ruleMetrics, vecs, nRequests, crashed>>
    /\ UNCHANGED cvars

\* handler, lines 116-121: the read of ruleMetrics ends; when the rule has
\* no entry a GaugeVec is created from the labels of this row.
LookupEnd(h) ==
    /\ ~crashed
    /\ req[h].pc = "reading"
    /\ LET rule == RuleOf(h)
       IN  IF rule.Record \in DOMAIN ruleMetrics
           THEN /\ req' = [req EXCEPT ![h].metric = ruleMetrics[rule.Record],
                                      ![h].pc = "with"]
                /\ UNCHANGED vecs
           ELSE /\ vecs' = Append(vecs,
                            [name |-> rule.Record, help |-> rule.Expr,
                             labelNames |-> getLabelNames(RowLabels(ResultOf(h))),
                             series |-> {}])
                /\ req' = [req EXCEPT ![h].metric = Len(vecs) + 1,
                                      ![h].pc = "store"]
    /\ UNCHANGED <<ruleMetrics, nRequests, crashed>>
    /\ UNCHANGED cvars

\* handler, line 122: the write of ruleMetrics begins.
StoreBegin(h) ==
    /\ ~crashed
    /\ req[h].pc = "store"
    /\ req' = [req EXCEPT ![h].pc = "storing"]
    /\ UNCHANGED <<ruleMetrics, vecs, nRequests, crashed>>
    /\ UNCHANGED cvars

\* handler, lines 122-124: the write of ruleMetrics ends and the new
\* GaugeVec is registered with the registry of this request.
StoreEnd(h) ==
    /\ ~crashed
    /\ req[h].pc = "storing"
    /\ ruleMetrics' = MapSet(ruleMetrics, RuleOf(h).Record, req[h].metric)
    /\ req' = [req EXCEPT ![h] =
                 IF RegisterFails(req[h].registry, req[h].metric)
                 THEN Panicked(req[h])
                 ELSE [req[h] EXCEPT !.registry = @ \cup {req[h].metric},
                                     !.pc = "with"]]
    /\ UNCHANGED <<vecs, nRequests, crashed>>
    /\ UNCHANGED cvars

\* handler, line 127: metric.With(labels).
With(h) ==
    /\ ~crashed
    /\ req[h].pc = "with"
    /\ LET m == req[h].metric
           labels == RowLabels(ResultOf(h))
       IN  IF WithFails(vecs[m], labels)
           THEN /\ req' = [req EXCEPT ![h] = Panicked(req[h])]
                /\ UNCHANGED vecs
           ELSE /\ vecs' = [vecs EXCEPT ![m] = WithSeries(@, labels)]
                /\ req' = [req EXCEPT ![h].pc = "set"]
    /\ UNCHANGED <<ruleMetrics, nRequests, crashed>>
    /\ UNCHANGED cvars

\* handler, line 127: .Set(value), then the next row or rule.
Set(h) ==
    /\ ~crashed
    /\ req[h].pc = "set"
    /\ LET m == req[h].metric
           labels == RowLabels(ResultOf(h))
       IN  vecs' = [vecs EXCEPT ![m] = SetSeries(@, labels, RowValue(ResultOf(h)))]
    /\ req' = [req EXCEPT ![h] = AfterRow(req[h], GroupOf(h))]
    /\ UNCHANGED <<ruleMetrics, nRequests, crashed>>
    /\ UNCHANGED cvars

\* The series a gathering of this registry collects.
Collected(registry) ==
    UNION { { [vec |-> v, labels |-> s.labels] : s \in vecs[v].series } :
            v \in registry }

\* The response once every collected series has been written.
Served(r) ==
    [IdleReq EXCEPT !.pc = "done", !.target = r.target, !.status = 200,
                    !.body = r.body, !.queried = r.queried]

\* handler, lines 131-132: the gathering of the registry begins.
RenderBegin(h) ==
    /\ ~crashed
    /\ req[h].pc = "render"
    /\ LET c == Collected(req[h].registry)
       IN  req' = [req EXCEPT ![h] =
                IF c = {} THEN Served(req[h])
                ELSE [req[h] EXCEPT !.pc = "rendering", !.pending = c]]
    /\ UNCHANGED <<ruleMetrics, vecs, nRequests, crashed>>
    /\ UNCHANGED cvars

\* The value a series of vec v holds.
SeriesValue(v, labels) ==
    (CHOOSE s \in v.series : s.labels = labels).value

\* handler, line 132: the value of one collected series is read into the
\* response; after the last one the response is sent with status 200.
RenderStep(h) ==
    /\ ~crashed
    /\ req[h].pc = "rendering"
    /\ \E p \in req[h].pending :
         LET sample == [name |-> vecs[p.vec].name, labels |-> p.labels,
                        value |-> SeriesValue(vecs[p.vec], p.labels)]
             r == [req[h] EXCEPT !.body = @ \cup {sample},
                                 !.pending = @ \ {p}]
         IN  req' = [req EXCEPT ![h] =
                  IF r.pending = {} THEN Served(r) ELSE r]
    /\ UNCHANGED <<ruleMetrics, vecs, nRequests, crashed>>
    /\ UNCHANGED cvars

\* Handler h is inside a read (a write) of ruleMetrics.
Reading(h) == req[h].pc = "reading"
Writing(h) == req[h].pc = "storing"

\* Two handlers are inside ruleMetrics at once and one of them writes.
Racing(h, g) ==
    /\ h # g
    /\ Writing(h) \/ Writing(g)
    /\ Reading(h) \/ Writing(h)
    /\ Reading(g) \/ Writing(g)

\* The Go runtime detects a concurrent map access and ends the process.
MapFault(h) ==
    /\ ~crashed
    /\ \E g \in Handlers : Racing(h, g)
    /\ crashed' = TRUE
    /\ UNCHANGED <<ruleMetrics, vecs, req, nRequests>>
    /\ UNCHANGED cvars

\* A request arrives while requests may still be running.
ConcRequest(h, t) ==
    /\ nRequests < MaxConcRequests
    /\ Request(h, t)

Next ==
    \/ \E h \in Handlers, t \in TargetParams : ConcRequest(h, t)
    \/ \E h \in Handlers, resp \in Responses(MaxConcRows) : Query(h, resp)
    \/ \E h \in Handlers : LookupBegin(h)
    \/ \E h \in Handlers : LookupEnd(h)
    \/ \E h \in Handlers : StoreBegin(h)
    \/ \E h \in Handlers : StoreEnd(h)
    \/ \E h \in Handlers : With(h)
    \/ \E h \in Handlers : Set(h)
    \/ \E h \in Handlers : RenderBegin(h)
    \/ \E h \in Handlers : RenderStep(h)
    \/ \E h \in Handlers : MapFault(h)

Spec == Init /\ [][Next]_vars

\* The requests served one after the other by a single goroutine.
NextSeq ==
    \/ \E t \in TargetParams : Request(1, t)
    \/ \E resp \in Responses(MaxRows) : Query(1, resp)
    \/ LookupBegin(1)
    \/ LookupEnd(1)
    \/ StoreBegin(1)
    \/ StoreEnd(1)
    \/ With(1)
    \/ Set(1)
    \/ RenderBegin(1)
    \/ RenderStep(1)

SeqSpec == Init /\ [][NextSeq]_vars

TypeOK ==
    /\ crashed \in BOOLEAN
    /\ nRequests \in 0..MaxRequests
    /\ \A r \in DOMAIN ruleMetrics : ruleMetrics[r] \in 1..Len(vecs)
    /\ \A h \in Handlers : req[h].status \in {0, 200, 400, 404}

----------------------------------------------------------------------------
\* Vocabulary of the properties.

Known(t) == t \in DOMAIN Config.Targets

\* Handler h takes a step of its own.
Steps(h) == req'[h] # req[h]

\* Handler h ends its request in this step with a response.
Responds(h) == req[h].pc \notin {"done", "panic"} /\ req'[h].pc = "done"

\* The sample the response shows for series s of the metric named name.
Sample(name, s) == [name |-> name, labels |-> s.labels, value |-> s.value]

\* The rule names of target t.
RecordsOf(t) ==
    { Config.Targets[t].Rules[n].Record : n \in 1..Len(Config.Targets[t].Rules) }

\* Every series held by a GaugeVec, with its value.
AllSeries ==
    UNION { { [vec |-> v, labels |-> s.labels, value |-> s.value] :
                s \in vecs[v].series } : v \in 1..Len(vecs) }

\* Handler h is working on a row of a query result (lines 107-127).
AtRow(h) == req[h].pc \in {"lookup", "reading", "store", "storing", "with", "set"}

----------------------------------------------------------------------------
\* C1: every 200 response for a target exposes, for each rule of the target,
\* every series the process holds for that rule, with its last-set value.
C1_SeriesPersist ==
    \A h \in Handlers :
        (req[h].pc = "done" /\ req[h].status = 200) =>
            \A rec \in RecordsOf(req[h].target) :
                rec \in DOMAIN ruleMetrics =>
                    \A s \in vecs[ruleMetrics[rec]].series :
                        Sample(rec, s) \in req[h].body

\* C2: at most one GaugeVec is ever created per rule name, and an entry of
\* ruleMetrics is never replaced by another GaugeVec.
C2_OneVecPerRule ==
    [][ /\ \A r \in DOMAIN ruleMetrics :
              r \in DOMAIN ruleMetrics' /\ ruleMetrics'[r] = ruleMetrics[r]
        /\ \A v, w \in 1..Len(vecs') :
              vecs'[v].name = vecs'[w].name => v = w ]_vars

\* C3: a row whose label names differ from the descriptor of its rule is
\* dropped: no series changes and the scrape goes on with the next row or
\* rule.
C3_MismatchDropped ==
    [][ \A h \in Handlers :
          ( /\ req[h].pc = "with"
            /\ WithFails(vecs[req[h].metric], RowLabels(ResultOf(h)))
            /\ Steps(h) ) =>
          ( /\ vecs' = vecs
            /\ req'[h].pc \in {"lookup", "query", "render"} ) ]_vars

\* C4: while the handler is on a row whose value string does not parse, no
\* series is created or set, and the handler goes on.
C4_UnparseableRowSkipped ==
    [][ \A h \in Handlers :
          ( /\ AtRow(h)
            /\ ParseFloat(ResultOf(h)["value"]).err
            /\ Steps(h) ) =>
          ( /\ AllSeries' = AllSeries
            /\ req'[h].pc # "panic" ) ]_vars

\* C5: whatever the backend answers to a query, the handler is not aborted:
\* it goes on with the rows of the result or with the next rule.
C5_QueryFailureContained ==
    [][ \A h \in Handlers :
          (req[h].pc = "query" /\ Steps(h)) =>
              req'[h].pc \in {"lookup", "query", "render"} ]_vars

\* C6: a request for a target of the catalog never ends without a response,
\* and its response has status 200.
C6_AlwaysResponds ==
    \A h \in Handlers :
        Known(req[h].target) =>
            /\ req[h].pc # "panic"
            /\ req[h].pc = "done" => req[h].status = 200

\* The status of a request the handler turns away.
Rejection(t) == IF t = "" THEN 400 ELSE 404

\* C7: a request without target is answered 400 and one for a target that
\* is not in the catalog 404, in one step that issues no backend query and
\* leaves ruleMetrics and every GaugeVec as they were.
C7_RejectLeavesState ==
    [][ \A h \in Handlers :
          ( /\ req[h].pc \in {"idle", "done", "panic"}
            /\ Steps(h)
            /\ ~Known(req'[h].target) ) =>
          ( /\ req'[h].pc = "done"
            /\ req'[h].status = Rejection(req'[h].target)
            /\ req'[h].queried = <<>>
            /\ req'[h].body = {}
            /\ ruleMetrics' = ruleMetrics
            /\ vecs' = vecs ) ]_vars

\* C7 witness: a request for an unknown target has been answered 404 while
\* the process holds a series.
C7_Witness ==
    /\ req[1].pc = "done"
    /\ req[1].target = "ghost"
    /\ req[1].status = 404
    /\ AllSeries # {}

\* The value of the last of these results that carries these labels.
LastValue(results, labels) ==
    LET at == { n \in 1..Len(results) : RowLabels(results[n]) = labels }
        last == CHOOSE n \in at : \A m \in at : m <= n
    IN  RowValue(results[last])

\* The samples a response owes to these results of the rule named name.
Expected(name, results) ==
    { [name |-> name, labels |-> RowLabels(results[n]),
       value |-> LastValue(results, RowLabels(results[n]))] :
        n \in 1..Len(results) }

\* C8: when a scrape of a target with two rules ends after the backend
\* failed on the first rule and answered the second, the response is 200,
\* shows the series of the second rule with the values of this scrape, and
\* shows nothing for the first rule that the process does not hold.
C8_PartialFailure ==
    [][ \A h \in Handlers :
          ( /\ Responds(h)
            /\ Known(req[h].target)
            /\ Len(GroupOf(h).Rules) = 2
            /\ req[h].logged = << GroupOf(h).Rules[1].Record >> ) =>
          LET a == GroupOf(h).Rules[1].Record
              b == GroupOf(h).Rules[2].Record
          IN  /\ req'[h].status = 200
              /\ Expected(b, req[h].results) \subseteq req'[h].body
              /\ \A x \in req'[h].body :
                    x.name = a =>
                        /\ a \in DOMAIN ruleMetrics
                        /\ \E s \in vecs[ruleMetrics[a]].series :
                              Sample(a, s) = x ]_vars

\* A series reachable through ruleMetrics stays reachable.
NoLostSeries ==
    \A r \in DOMAIN ruleMetrics :
        \A s \in vecs[ruleMetrics[r]].series :
            /\ r \in DOMAIN ruleMetrics'
            /\ \E x \in vecs'[ruleMetrics'[r]].series : x.labels = s.labels

\* No two handlers are inside ruleMetrics at once with one of them writing.
NoMapRace == \A h, g \in Handlers : ~Racing(h, g)

\* C9: handlers running in parallel never access ruleMetrics at the same
\* time with one of them writing, and no series is lost from the registry.
C9_NoRaceNoLostUpdate == [][NoMapRace' /\ NoLostSeries]_vars

\* C10: while a handler renders its response, no series of a metric of
\* that response is created or set.
C10_SnapshotConsistent ==
    [][ \A h \in Handlers :
          req[h].pc = "rendering" =>
              \A v \in req[h].registry : vecs'[v] = vecs[v] ]_vars

----------------------------------------------------------------------------
\* C11: once a query expression has been answered (a GaugeVec created from
\* its rows carries it as help text), evaluating it again issues no backend
\* request.
C11_Memoized ==
    [][ \A h \in Handlers :
          ( /\ req[h].pc = "query"
            /\ Steps(h)
            /\ \E v \in 1..Len(vecs) : vecs[v].help = RuleOf(h).Expr ) =>
          req'[h].queried = req[h].queried ]_vars

\* The series the process holds after the step for the rule named name
\* with these labels.
SeriesAfter(name, labels) ==
    { x \in AllSeries' : vecs'[x.vec].name = name /\ x.labels = labels }

\* C17: after an observation the process holds exactly one series for the
\* observed (rule name, label values), and its value is the observed one.
C17_LastWriteWins ==
    [][ \A h \in Handlers :
          (req[h].pc = "set" /\ Steps(h)) =>
              LET after == SeriesAfter(RuleOf(h).Record, RowLabels(ResultOf(h)))
              IN  /\ Cardinality(after) = 1
                  /\ \A x \in after : x.value = RowValue(ResultOf(h)) ]_vars

\* The query expressions of target t in the catalog's order.
ExprsOf(t) ==
    [n \in 1..Len(Config.Targets[t].Rules) |-> Config.Targets[t].Rules[n].Expr]

\* C18: the queries of a scrape are the expressions of the target's rules in
\* the catalog's order, the query of a rule is issued only after the rows of
\* the rule before it, and a scrape that has ended has issued all of them.
C18_OrderedEvaluation ==
    \A h \in Handlers :
        Known(req[h].target) =>
            LET q == req[h].queried
                e == ExprsOf(req[h].target)
            IN  /\ Len(q) <= Len(e)
                /\ q = SubSeq(e, 1, Len(q))
                /\ AtRow(h) => Len(q) = req[h].i
                /\ req[h].pc = "query" => Len(q) = req[h].i - 1
                /\ req[h].pc \in {"done", "panic"} => q = e

\* C19: the labels and the value the handler observes for a row are the
\* backend row's label map and the number parsed from its value string.
C19_LabelPassThrough ==
    \A h \in Handlers :
        AtRow(h) =>
            /\ RowLabels(ResultOf(h)) = req[h].rows[req[h].j].metric
            /\ RowValue(ResultOf(h)) = ParseFloat(req[h].rows[req[h].j].value).val

----------------------------------------------------------------------------
\* The TTL cache (package cache).

\* An int64 sum, TimeBits wide here: it wraps around.
Wrap(x) == ((x + 2^(TimeBits - 1)) % 2^TimeBits) - 2^(TimeBits - 1)

\* Cache.Set, line 33: time.Now().Add(duration).UnixNano() at time t.
Expiry(t, duration) == Wrap(t + duration)

\* Cache.Set, lines 31-34, on the items m at time t.
SetItem(m, t, key, value, duration) ==
    MapSet(m, key, [Value |-> value, Expiration |-> Expiry(t, duration)])

\* Cache.Get that takes the entry for expired at the instant of its expiry.
GetItemStrict(m, t, key) ==
    IF key \notin DOMAIN m \/ t >= m[key].Expiration
    THEN [value |-> Nil, found |-> FALSE]
    ELSE [value |-> m[key].Value, found |-> TRUE]

\* Cache.Get, lines 41-45, on the items m at time t.
GetItem(m, t, key) ==
    IF key \notin DOMAIN m \/ t > m[key].Expiration
    THEN [value |-> Nil, found |-> FALSE]
    ELSE [value |-> m[key].Value, found |-> TRUE]

\* Cache.Delete that empties the map instead of removing one key.
DeleteItemAll(m, key) == [k \in {} |-> m[k]]

\* Cache.Delete, line 52: delete(c.items, key).
DeleteItem(m, key) == [k \in (DOMAIN m) \ {key} |-> m[k]]

\* Cache.Cleanup that also removes the entries expiring at this instant.
CleanupItemsEager(m, t) ==
    [k \in { x \in DOMAIN m : ~(t >= m[x].Expiration) } |-> m[k]]

\* Cache.Cleanup, lines 59-64, on the items m at time t.
CleanupItems(m, t) ==
    [k \in { x \in DOMAIN m : ~(t > m[x].Expiration) } |-> m[k]]

\* Cache.Set(key, value, duration), the whole call.
CacheSet(key, value, duration) ==
    /\ items' = SetItem(items, now, key, value, duration)
    /\ unswept' = SetItem(unswept, now, key, value, duration)
    /\ sets' = MapSet(sets, key, [value |-> value, at |-> now, ttl |-> duration])
    /\ ret' = [NoCall EXCEPT !.op = "Set", !.key = key]
    /\ UNCHANGED <<now, mu, cp, stored>>
    /\ UNCHANGED hvars

\* Cache.Get(key), the whole call.
CacheGet(key) ==
    /\ ret' = [op |-> "Get", key |-> key,
               value |-> GetItem(items, now, key).value,
               found |-> GetItem(items, now, key).found]
    /\ UNCHANGED <<items, now, sets, unswept, mu, cp, stored>>
    /\ UNCHANGED hvars

\* Cache.Delete(key), the whole call.
CacheDelete(key) ==
    /\ items' = DeleteItem(items, key)
    /\ unswept' = DeleteItem(unswept, key)
    /\ sets' = DeleteItem(sets, key)
    /\ ret' = [NoCall EXCEPT !.op = "Delete", !.key = key]
    /\ UNCHANGED <<now, mu, cp, stored>>
    /\ UNCHANGED hvars

\* Cache.Cleanup(), the whole call.
CacheCleanup ==
    /\ items' = CleanupItems(items, now)
    /\ ret' = [NoCall EXCEPT !.op = "Cleanup"]
    /\ UNCHANGED <<now, sets, unswept, mu, cp, stored>>
    /\ UNCHANGED hvars

\* Time passes between two calls.
Tick ==
    /\ now < MaxNow
    /\ now' = now + 1
    /\ ret' = NoCall
    /\ UNCHANGED <<items, sets, unswept, mu, cp, stored>>
    /\ UNCHANGED hvars

CacheNext ==
    \/ \E k \in Keys, v \in Values, d \in Ttls : CacheSet(k, v, d)
    \/ \E k \in Keys : CacheGet(k)
    \/ \E k \in Keys : CacheDelete(k)
    \/ CacheCleanup
    \/ Tick

CacheSpec == Init /\ [][CacheNext]_vars

----------------------------------------------------------------------------
\* Properties of the cache.

Miss == [value |-> Nil, found |-> FALSE]

Hit(v) == [value |-> v, found |-> TRUE]

\* What the Get call recorded in ret returned.
Got == [value |-> ret.value, found |-> ret.found]

\* The step is a call of op on key.
Calls(op, key) == ret' # ret /\ ret'.op = op /\ ret'.key = key

\* The expiry the latest Set of key asked for: Set-time + ttl, as a number.
Due(key) == sets[key].at + sets[key].ttl

\* C12: a Get(k) that follows Set(k, v, ttl) with no Delete of k in between
\* returns v while the clock has not passed Set-time + ttl, and misses once
\* the clock has passed it.
C12_RoundTrip ==
    \A k \in Keys :
        (ret.op = "Get" /\ ret.key = k /\ k \in DOMAIN sets) =>
            Got = IF now <= Due(k) THEN Hit(sets[k].value) ELSE Miss

\* C12, for the ttls whose expiry fits the width of the clock.
C12_RoundTripInRange ==
    \A k \in Keys :
        (ret.op = "Get" /\ ret.key = k /\ k \in DOMAIN sets /\ Due(k) <= MaxInt) =>
            Got = IF now <= Due(k) THEN Hit(sets[k].value) ELSE Miss

\* C13: a Set(k, v2, ttl2) over an entry of k replaces its value and its
\* expiry: from then on Get(k) returns v2 up to the time of the second Set
\* + ttl2 and misses after it, whatever the first entry was.
C13_Overwrite ==
    [][ \A k \in Keys :
          (Calls("Set", k) /\ k \in DOMAIN items) =>
              \A t \in now..MaxNow :
                  GetItem(items', t, k) =
                      IF t <= now + sets'[k].ttl THEN Hit(sets'[k].value) ELSE Miss ]_vars

\* C13, for the second ttls whose expiry fits the width of the clock.
C13_OverwriteInRange ==
    [][ \A k \in Keys :
          (Calls("Set", k) /\ k \in DOMAIN items /\ now + sets'[k].ttl <= MaxInt) =>
              \A t \in now..MaxNow :
                  GetItem(items', t, k) =
                      IF t <= now + sets'[k].ttl THEN Hit(sets'[k].value) ELSE Miss ]_vars

\* C14: Delete(k) removes k whether it was present, expired or absent, so a
\* Get(k) at any later time misses; a second Delete(k) changes nothing; the
\* entry of every other key is unchanged.
C14_Delete ==
    [][ \A k \in Keys :
          Calls("Delete", k) =>
              /\ k \notin DOMAIN items'
              /\ \A t \in now..MaxNow : GetItem(items', t, k) = Miss
              /\ DeleteItem(items', k) = items'
              /\ \A j \in Keys \ {k} :
                    /\ j \in DOMAIN items' <=> j \in DOMAIN items
                    /\ j \in DOMAIN items => items'[j] = items[j] ]_vars

\* A Delete has run and the entry of the other key is still stored.
C14_Witness ==
    /\ ret.op = "Delete"
    /\ DOMAIN items = Keys \ {ret.key}

\* C15: Cleanup removes exactly the entries whose expiry is before the
\* current time and keeps the others as they are, and every Get returns what
\* the same Set and Delete calls return when no Cleanup runs at all.
C15_CleanupPure ==
    [][ /\ Calls("Cleanup", "") =>
              /\ DOMAIN items' = { k \in DOMAIN items : ~(items[k].Expiration < now) }
              /\ \A k \in DOMAIN items' : items'[k] = items[k]
        /\ \A k \in Keys :
              Calls("Get", k) =>
                  [value |-> ret'.value, found |-> ret'.found] = GetItem(unswept, now, k) ]_vars

\* A Get has run on a key whose entry a Cleanup had removed.
C15_Witness ==
    /\ ret.op = "Get"
    /\ ret.key \in (DOMAIN unswept) \ (DOMAIN items)

\* C20: Get(k) hits exactly when k is stored and the current time is not
\* greater than its expiry, returns the stored value on a hit, and leaves
\* the item map as it is, expired entries included.
C20_GetReadOnly ==
    [][ \A k \in Keys :
          Calls("Get", k) =>
              /\ items' = items
              /\ ret'.found <=> (k \in DOMAIN items /\ now <= items[k].Expiration)
              /\ ret'.value = IF ret'.found THEN items[k].Value ELSE Nil ]_vars

\* A Get has hit an entry at the instant of its expiry, set with ttl 0 at
\* this instant, while the expired entry of the other key is still stored.
C20_Witness ==
    /\ ret.op = "Get" /\ ret.found
    /\ items[ret.key].Expiration = now
    /\ sets[ret.key] = [value |-> ret.value, at |-> now, ttl |-> 0]
    /\ \E j \in (DOMAIN items) \ {ret.key} : now > items[j].Expiration

----------------------------------------------------------------------------
\* The cache called by several goroutines: every call takes c.mu first.

ConcTtls == {0, 1}

\* Caller p is between its Lock or RLock and its deferred unlock.
Inside(p) == cp[p].pc # "idle"

\* sync.RWMutex.Lock can return.
CanLock == mu.w = 0 /\ mu.r = {}

\* An RLock that does not wait for the writer.
CanRLockAlways == TRUE

\* sync.RWMutex.RLock can return.
CanRLock == mu.w = 0

\* Caller p enters Set(key, value, duration): c.mu.Lock(), line 29.
SetBegin(p, key, value, duration) ==
    /\ cp[p].pc = "idle"
    /\ CanLock
    /\ mu' = [mu EXCEPT !.w = p]
    /\ cp' = [cp EXCEPT ![p] = [IdleCaller EXCEPT !.pc = "store", !.op = "Set",
                                  !.key = key, !.value = value, !.ttl = duration,
                                  !.left = Fields]]
    /\ UNCHANGED <<items, now, ret, sets, unswept, stored>>
    /\ UNCHANGED hvars

\* Lines 31-34: the CacheItem is built (the clock is read) and assigned to
\* the map slot of the key, one field at a time, in either order.
SetStore(p, f) ==
    LET c    == cp[p]
        item == IF c.left = Fields
                THEN [Value |-> c.value, Expiration |-> Expiry(now, c.ttl)]
                ELSE c.item
        cur  == IF c.key \in DOMAIN items THEN items[c.key] ELSE ZeroItem
    IN  /\ c.pc = "store"
        /\ f \in c.left
        /\ items' = MapSet(items, c.key, [cur EXCEPT ![f] = item[f]])
        /\ stored' = MapSet(stored, c.key, item)
        /\ cp' = [cp EXCEPT ![p] = [c EXCEPT !.item = item, !.left = c.left \ {f},
                                     !.pc = IF c.left = {f} THEN "unlock" ELSE "store"]]
        /\ UNCHANGED <<now, ret, sets, unswept, mu>>
        /\ UNCHANGED hvars

\* Caller p enters Get(key): c.mu.RLock(), line 39.
GetBegin(p, key) ==
    /\ cp[p].pc = "idle"
    /\ CanRLock
    /\ mu' = [mu EXCEPT !.r = mu.r \cup {p}]
    /\ cp' = [cp EXCEPT ![p] = [IdleCaller EXCEPT !.pc = "read", !.op = "Get",
                                  !.key = key]]
    /\ UNCHANGED <<items, now, ret, sets, unswept, stored>>
    /\ UNCHANGED hvars

\* Lines 41-45: the entry is read and tested against the clock.
GetRead(p) ==
    LET c == cp[p]
    IN  /\ c.pc = "read"
        /\ cp' = [cp EXCEPT ![p] =
                    [c EXCEPT !.pc = "unlock",
                              !.present = c.key \in DOMAIN items,
                              !.item = IF c.key \in DOMAIN items
                                       THEN items[c.key] ELSE ZeroItem,
                              !.found = GetItem(items, now, c.key).found,
                              !.value = GetItem(items, now, c.key).value]]
        /\ UNCHANGED <<items, now, ret, sets, unswept, mu, stored>>
        /\ UNCHANGED hvars

\* Caller p enters Delete(key): c.mu.Lock(), line 50.
DeleteBegin(p, key) ==
    /\ cp[p].pc = "idle"
    /\ CanLock
    /\ mu' = [mu EXCEPT !.w = p]
    /\ cp' = [cp EXCEPT ![p] = [IdleCaller EXCEPT !.pc = "delete", !.op = "Delete",
                                  !.key = key]]
    /\ UNCHANGED <<items, now, ret, sets, unswept, stored>>
    /\ UNCHANGED hvars

\* Line 52: delete(c.items, key).
DeleteBody(p) ==
    /\ cp[p].pc = "delete"
    /\ items' = DeleteItem(items, cp[p].key)
    /\ stored' = DeleteItem(stored, cp[p].key)
    /\ cp' = [cp EXCEPT ![p].pc = "unlock"]
    /\ UNCHANGED <<now, ret, sets, unswept, mu>>
    /\ UNCHANGED hvars

\* Caller p enters Cleanup(): c.mu.Lock(), line 57.
CleanupBegin(p) ==
    /\ cp[p].pc = "idle"
    /\ CanLock
    /\ mu' = [mu EXCEPT !.w = p]
    /\ cp' = [cp EXCEPT ![p] = [IdleCaller EXCEPT !.pc = "sweep", !.op = "Cleanup"]]
    /\ UNCHANGED <<items, now, ret, sets, unswept, stored>>
    /\ UNCHANGED hvars

\* Lines 59-64: the clock is read once and the expired entries are deleted.
CleanupBody(p) ==
    /\ cp[p].pc = "sweep"
    /\ items' = CleanupItems(items, now)
    /\ stored' = CleanupItems(stored, now)
    /\ cp' = [cp EXCEPT ![p].pc = "unlock"]
    /\ UNCHANGED <<now, ret, sets, unswept, mu>>
    /\ UNCHANGED hvars

\* The deferred c.mu.Unlock() of Set, Delete and Cleanup; the call returns.
Unlock(p) ==
    /\ cp[p].pc = "unlock"
    /\ cp[p].op # "Get"
    /\ mu' = [mu EXCEPT !.w = 0]
    /\ cp' = [cp EXCEPT ![p] = IdleCaller]
    /\ UNCHANGED <<items, now, ret, sets, unswept, stored>>
    /\ UNCHANGED hvars

\* The deferred c.mu.RUnlock() of Get; the call returns.
RUnlock(p) ==
    /\ cp[p].pc = "unlock"
    /\ cp[p].op = "Get"
    /\ mu' = [mu EXCEPT !.r = mu.r \ {p}]
    /\ cp' = [cp EXCEPT ![p] = IdleCaller]
    /\ UNCHANGED <<items, now, ret, sets, unswept, stored>>
    /\ UNCHANGED hvars

\* Time passes.
ConcTick ==
    /\ now < MaxConcNow
    /\ now' = now + 1
    /\ UNCHANGED <<items, ret, sets, unswept, mu, cp, stored>>
    /\ UNCHANGED hvars

CacheConcNext ==
    \/ \E p \in Callers, k \in Keys, v \in Values, d \in ConcTtls : SetBegin(p, k, v, d)
    \/ \E p \in Callers, f \in Fields : SetStore(p, f)
    \/ \E p \in Callers, k \in Keys : GetBegin(p, k)
    \/ \E p \in Callers : GetRead(p)
    \/ \E p \in Callers, k \in Keys : DeleteBegin(p, k)
    \/ \E p \in Callers : DeleteBody(p)
    \/ \E p \in Callers : CleanupBegin(p)
    \/ \E p \in Callers : CleanupBody(p)
    \/ \E p \in Callers : Unlock(p)
    \/ \E p \in Callers : RUnlock(p)
    \/ ConcTick

CacheConcSpec == Init /\ [][CacheConcNext]_vars

\* C16: under any interleaving of the calls, no caller is inside the cache
\* together with a writer, and the entry a Get has read is the whole item
\* of one Set, its value with its own expiry, never fields of two Sets.
C16_Atomic ==
    /\ \A p \in Callers, q \in Callers :
          (p # q /\ Inside(p) /\ cp[p].op # "Get") => ~Inside(q)
    /\ \A p \in Callers :
          (cp[p].op = "Get" /\ cp[p].pc = "unlock" /\ cp[p].present) =>
              /\ cp[p].key \in DOMAIN stored
              /\ cp[p].item = stored[cp[p].key]
              /\ cp[p].found => cp[p].value = cp[p].item.Value

\* A Get has read a live entry while another Get is inside the cache.
C16_Witness ==
    \E p \in Callers, q \in Callers :
        /\ p # q
        /\ cp[p].op = "Get" /\ cp[p].pc = "unlock" /\ cp[p].found
        /\ cp[q].op = "Get" /\ Inside(q)

====
